---- MODULE Spec2Model ----
(***************************************************************************)
(* Model of wasmer/src/main.py: the stateful Kafka consumer test server.   *)
(*                                                                         *)
(* The server is an http.server.HTTPServer (single threaded): one request  *)
(* is handled from start to end before the next one is accepted, so each   *)
(* request is one atomic action.  The answers of the remote REST proxy are *)
(* the inputs of an action, drawn from small sets.  A handled request      *)
(* leaves, next to the session object, the session as it was before the    *)
(* request, the remote calls the request issued and the response it built; *)
(* the server accepts the next request once the response is written.       *)
(***************************************************************************)
EXTENDS Integers, Sequences, FiniteSets, TLC

VARIABLES
    persistent_consumer,  \* the global PersistentKafkaConsumer object
    now,                  \* time.time() as last read by a request
    next_offset,          \* offset the remote gives to the next record it returns
    topic,                \* the records a remote that stores the publishes holds
    request,              \* the path of the request in hand, "none" between requests
    handlers,             \* number of request handlers that are running
    before,               \* persistent_consumer before the request in hand
    calls,                \* remote calls issued by the request in hand, in order
    outcome,              \* what the session methods called by the request returned
    response              \* the response built by the request in hand

vars == <<persistent_consumer, now, next_offset, topic, request, handlers, before, calls,
          outcome, response>>

---------------------------------------------------------------------------
(* Bounds of the model *)

MaxClock == 2        \* the clock stops advancing here
MaxRecords == 2      \* elements the remote returns in a run of Spec
HistSlack == 2       \* records beyond max_stored_messages in a run of SpecHist
MaxPublish == 2      \* records published in a run of SpecLive

---------------------------------------------------------------------------
(* JSON values, as json.loads returns them *)

JNull == [t |-> "null", s |-> "", n |-> 0]
JStr(s) == [t |-> "string", s |-> s, n |-> 0]
JNum(n) == [t |-> "number", s |-> "", n |-> n]
\* an object is named by its content; "{}" is the empty object
JObj(s) == [t |-> "object", s |-> s, n |-> 0]

\* an array is named by its content too; only its being an array matters
JArr(s) == [t |-> "array", s |-> s, n |-> 0]

\* Python truthiness of a decoded JSON value
Truthy(v) ==
    CASE v.t = "null" -> FALSE
      [] v.t = "string" -> v.s # ""
      [] v.t = "number" -> v.n # 0
      [] v.t = "object" -> v.s # "{}"
      [] v.t = "array" -> v.s # "[]"

\* The test event the publish endpoints build, and texts that encode it
TestEvent == JObj("{type:test_message}")
TextEvent == "{\"type\":\"test_message\"}"
TextDouble == "\"{\\\"type\\\":\\\"test_message\\\"}\""
TextGarbage == "not json"

TextInst1 == "{\"instance_id\":\"inst_1\"}"
TextInst2 == "{\"instance_id\":\"inst_2\"}"
TextInstNull == "{\"instance_id\":null}"
TextInstNum == "{\"instance_id\":7}"

\* the test messages of the publish endpoints: the text after /send-message/
\* and the test_message of a POST body
Messages == { "hello", "stateful_test" }

\* test_event of /send-message/{message}; the object is named by its JSON text
send_test_event(message) ==
    JObj("{\"type\":\"test_message\",\"player_id\":\"test-wasmer-" \o message
         \o "\",\"runtime\":\"wasmer\",\"test_data\":\"" \o message \o "\"}")

\* test_event of POST /test-kafka
kafka_test_event(test_message) ==
    JObj("{\"type\":\"test_message\",\"player_id\":\"test-stateful-" \o test_message
         \o "\",\"runtime\":\"wasmer\",\"test_data\":\"" \o test_message \o "\"}")

TestEvents ==
    { send_test_event(m) : m \in Messages } \cup { kafka_test_event(m) : m \in Messages }

\* json.dumps of an object
json_dumps(v) == IF v = TestEvent THEN TextEvent ELSE v.s

\* json.loads on the texts of the model: ok = FALSE is a raised JSONDecodeError
json_loads(text) ==
    CASE text = TextEvent -> [ok |-> TRUE, v |-> TestEvent]
      [] text \in { e.s : e \in TestEvents } -> [ok |-> TRUE, v |-> JObj(text)]
      [] text = TextDouble -> [ok |-> TRUE, v |-> JStr(TextEvent)]
      [] text = "0" -> [ok |-> TRUE, v |-> JNum(0)]
      [] text = "5" -> [ok |-> TRUE, v |-> JNum(5)]
      [] text = "{}" -> [ok |-> TRUE, v |-> JObj("{}")]
      [] text \in {"[]", "[ ]"} -> [ok |-> TRUE, v |-> JArr("[]")]
      [] text = TextInst1 -> [ok |-> TRUE, v |-> JObj("{instance_id:inst_1}")]
      [] text = TextInst2 -> [ok |-> TRUE, v |-> JObj("{instance_id:inst_2}")]
      [] text = TextInstNull -> [ok |-> TRUE, v |-> JObj("{instance_id:null}")]
      [] text = TextInstNum -> [ok |-> TRUE, v |-> JObj("{instance_id:7}")]
      [] OTHER -> [ok |-> FALSE, v |-> JNull]

\* consumer_data.get("instance_id", "unknown_instance") on a decoded object
get_instance_id(obj) ==
    CASE obj.s = "{instance_id:inst_1}" -> JStr("inst_1")
      [] obj.s = "{instance_id:inst_2}" -> JStr("inst_2")
      [] obj.s = "{instance_id:null}" -> JNull
      [] obj.s = "{instance_id:7}" -> JNum(7)
      [] OTHER -> JStr("unknown_instance")

\* str.strip() on the texts of the model
strip(text) == IF text = " " THEN "" ELSE text

---------------------------------------------------------------------------
(* Answers of the remote service to one HTTP call *)

\* a response body: its text, and for a JSON list of records its elements
TextBody(text) == [text |-> text, records |-> <<>>]
ListBody(records) == [text |-> "[...]", records |-> records]

\* urlopen returned a response with this body
Ok(body) == [kind |-> "ok", code |-> 200, body |-> body]
\* urlopen raised urllib.error.HTTPError
HttpError(code, text) == [kind |-> "http_error", code |-> code, body |-> TextBody(text)]
\* urlopen raised another exception (URLError, timeout)
UrlError == [kind |-> "url_error", code |-> 0, body |-> TextBody("")]

TextExists == "Consumer group ALREADY EXISTS"

\* "already exists" in error_response.lower()
ContainsAlreadyExists(text) == text \in {TextExists, "already exists"}

GroupAnswers ==
    { Ok(TextBody("")), HttpError(400, TextExists), HttpError(400, "bad request"),
      HttpError(409, ""), HttpError(500, ""), UrlError }

InstanceAnswers ==
    { Ok(TextBody(text)) :
        text \in {TextInst1, TextInst2, TextInstNull, TextInstNum, "{}", "[]", TextGarbage} }
    \cup { HttpError(409, TextExists), HttpError(500, ""), UrlError }

SubscribeAnswers ==
    { Ok(TextBody("")), HttpError(409, TextExists), HttpError(404, ""),
      HttpError(500, ""), UrlError }

\* one remote call as the request issued it: the operation, the instance id
\* in its URL (JNull when the URL has none) and the remote answer
Call(op, target, answer) == [op |-> op, target |-> target, answer |-> answer]

---------------------------------------------------------------------------
(* PersistentKafkaConsumer *)

max_stored_messages == 100

consumer_group_id == "wasmer_testkafkatopicnew_consumer"

NewConsumer ==
    [ consumer_group_id |-> consumer_group_id,
      instance_id |-> JNull,
      consumed_messages |-> <<>>,
      consumer_initialized |-> FALSE,
      last_poll_time |-> 0 ]

\* variant of group_raises in which an HTTPError of create group is not caught
group_raises_http(ga) == ga.kind # "ok"

\* create group and subscribe sit in a try of their own that catches HTTPError
\* alone: any other exception of urlopen leaves the setup sequence
group_raises(ga) == ga.kind = "url_error"

\* variant of subscribe_raises with every exception of the subscribe call caught
subscribe_tolerates_all(sa) == FALSE

subscribe_raises(sa) == sa.kind = "url_error"

\* variant of setup_sequence in which a failure of create instance is caught
\* like one of create group: subscribe is issued on the instance id at hand
setup_sequence_catches_instance(self, ga, ia, sa) ==
    LET c1 == Call("create_group", JNull, ga)
        c2 == Call("create_instance", JNull, ia)
        consumer_data == json_loads(ia.body.text)
        created == ia.kind = "ok" /\ consumer_data.ok /\ consumer_data.v.t = "object"
        id == IF created THEN get_instance_id(consumer_data.v) ELSE self.instance_id
        self1 == [self EXCEPT !.instance_id = id]
        c3 == Call("subscribe", id, sa)
    IN  IF group_raises(ga)
        THEN [ret |-> FALSE, self |-> self, calls |-> <<c1>>]
        ELSE IF created /\ id.t # "string"
        THEN [ret |-> FALSE, self |-> self1, calls |-> <<c1, c2>>]
        ELSE IF subscribe_raises(sa) \/ ~created
        THEN [ret |-> FALSE, self |-> self1, calls |-> <<c1, c2, c3>>]
        ELSE [ret |-> TRUE,
              self |-> [self1 EXCEPT !.consumer_initialized = TRUE],
              calls |-> <<c1, c2, c3>>]

\* the try block of initialize_consumer: ret is the value returned, self the
\* object afterwards, calls the remote calls issued.  ga, ia, sa are the
\* remote answers to create group, create instance and subscribe.
setup_sequence(self, ga, ia, sa) ==
    LET c1 == Call("create_group", JNull, ga)
        c2 == Call("create_instance", JNull, ia)
        consumer_data == json_loads(ia.body.text)
        id == get_instance_id(consumer_data.v)
        self1 == [self EXCEPT !.instance_id = id]
        c3 == Call("subscribe", id, sa)
    IN  IF group_raises(ga)
        \* not an HTTPError: the outer except returns False
        THEN [ret |-> FALSE, self |-> self, calls |-> <<c1>>]
        ELSE IF ia.kind # "ok" \/ ~consumer_data.ok \/ consumer_data.v.t # "object"
        \* urlopen, json.loads or .get raised before the assignment
        THEN [ret |-> FALSE, self |-> self, calls |-> <<c1, c2>>]
        ELSE IF id.t # "string"
        \* self.instance_id[:20] raises after the assignment
        THEN [ret |-> FALSE, self |-> self1, calls |-> <<c1, c2>>]
        ELSE IF subscribe_raises(sa)
        THEN [ret |-> FALSE, self |-> self1, calls |-> <<c1, c2, c3>>]
        ELSE [ret |-> TRUE,
              self |-> [self1 EXCEPT !.consumer_initialized = TRUE],
              calls |-> <<c1, c2, c3>>]

\* variant of initialize_consumer without the early return of lines 53-55
initialize_consumer_no_guard(self, ga, ia, sa) == setup_sequence(self, ga, ia, sa)

\* initialize_consumer
initialize_consumer(self, ga, ia, sa) ==
    IF self.consumer_initialized
    THEN [ret |-> TRUE, self |-> self, calls |-> <<>>]
    ELSE setup_sequence(self, ga, ia, sa)

---------------------------------------------------------------------------
(* Records of a fetch response *)

\* one element of the JSON list the fetch returns: a dict (a record of the
\* topic, with or without a "value" key), or something that is no dict
DictRecord(offset, value) ==
    [kind |-> "dict", has_value |-> TRUE, value |-> value, offset |-> offset]
NoValueRecord(offset) ==
    [kind |-> "dict", has_value |-> FALSE, value |-> JNull, offset |-> offset]
\* a number in place of a record: 'value' in record raises TypeError
NumberElement == [kind |-> "number", has_value |-> FALSE, value |-> JNull, offset |-> 0]
\* a string without "value" in it: 'value' in record is False
StringElement == [kind |-> "string", has_value |-> FALSE, value |-> JNull, offset |-> 0]

\* the entry poll_messages builds for an accepted record
processed_record(record, value_data, current_time, self) ==
    [ offset |-> record.offset,
      data |-> value_data,
      consumed_by |-> "persistent_consumer",
      consumed_at |-> current_time,
      instance_id |-> self.instance_id ]

\* variant of decode_value that takes the wire value as it is
decode_value_raw(value) == [ok |-> TRUE, v |-> value]

\* value_data of a record: json.loads of a string value, the value itself
\* otherwise; ok = FALSE when json.loads raises
decode_value(value) ==
    IF value.t = "string" THEN json_loads(value.s) ELSE [ok |-> TRUE, v |-> value]

\* the for loop of poll_messages over the elements not yet visited; st holds
\* consumed_messages, new_messages and whether an exception left the loop
RECURSIVE process_records(_, _, _, _)
process_records(records, self, current_time, st) ==
    IF records = <<>> THEN st
    ELSE
      LET record == Head(records)
          decoded == decode_value(record.value)
          entry == processed_record(record, decoded.v, current_time, self)
      IN  IF record.kind = "number"
          THEN [st EXCEPT !.raised = TRUE]
          ELSE IF record.kind = "string" \/ ~record.has_value \/ ~Truthy(record.value)
          THEN process_records(Tail(records), self, current_time, st)
          ELSE IF ~decoded.ok
          \* the inner except logs the parse error and the loop goes on
          THEN process_records(Tail(records), self, current_time, st)
          ELSE process_records(Tail(records), self, current_time,
                   [st EXCEPT !.consumed_messages = Append(@, entry),
                              !.new_messages = Append(@, entry)])

\* self.consumed_messages[-self.max_stored_messages:] when the list is longer
keep_recent(messages) ==
    IF Len(messages) > max_stored_messages
    THEN SubSeq(messages, Len(messages) - max_stored_messages + 1, Len(messages))
    ELSE messages

\* json.loads(records_result) followed by iteration: ok = FALSE when json.loads
\* raises or the value is not iterable; an object iterates over its keys
loads_records(body) ==
    LET parsed == json_loads(body.text)
    IN  IF body.text = "[...]" THEN [ok |-> TRUE, records |-> body.records]
        ELSE IF ~parsed.ok THEN [ok |-> FALSE, records |-> <<>>]
        ELSE IF parsed.v.t = "array" THEN [ok |-> TRUE, records |-> <<>>]
        ELSE IF parsed.v.t = "object"
        THEN [ok |-> TRUE,
              records |-> IF parsed.v.s = "{}" THEN <<>> ELSE <<StringElement>>]
        ELSE [ok |-> FALSE, records |-> <<>>]

\* the loop that prints the new messages: msg.get('data', {}).get(...) raises
\* AttributeError when the decoded value is no dict
log_raises(new_messages) ==
    \E i \in 1..Len(new_messages) : new_messages[i].data.t # "object"

\* variant of is_empty_body without the strip()
is_empty_body_no_strip(text) == ~(text # "" /\ text # "[]")

\* not (records_result.strip() and records_result != "[]")
is_empty_body(text) == ~(strip(text) # "" /\ text # "[]")

\* variant of record_poll_time that notes the time of a failed fetch as well
record_poll_time_always(self, current_time, fa) ==
    [self EXCEPT !.last_poll_time = current_time]

\* self.last_poll_time = current_time: inside the with block of the fetch,
\* reached when urlopen and read() have returned
record_poll_time(self, current_time, fa) ==
    IF fa.kind = "ok" THEN [self EXCEPT !.last_poll_time = current_time] ELSE self

\* the part of poll_messages inside its try block, on an initialized session
fetch_records(self, current_time, fa) ==
    LET c4 == Call("fetch", self.instance_id, fa)
        self1 == record_poll_time(self, current_time, fa)
        loaded == loads_records(fa.body)
        st == process_records(loaded.records, self1, current_time,
                  [consumed_messages |-> self1.consumed_messages,
                   new_messages |-> <<>>, raised |-> FALSE])
        self2 == [self1 EXCEPT !.consumed_messages = st.consumed_messages]
        self3 == [self2 EXCEPT !.consumed_messages = keep_recent(@)]
    IN  IF fa.kind # "ok"
        THEN [ret |-> <<>>, self |-> self1, calls |-> <<c4>>, caught |-> TRUE]
        ELSE IF is_empty_body(fa.body.text)
        THEN [ret |-> <<>>, self |-> self1, calls |-> <<c4>>, caught |-> FALSE]
        ELSE IF ~loaded.ok
        THEN [ret |-> <<>>, self |-> self1, calls |-> <<c4>>, caught |-> TRUE]
        ELSE IF st.raised
        THEN [ret |-> <<>>, self |-> self2, calls |-> <<c4>>, caught |-> TRUE]
        ELSE IF log_raises(st.new_messages)
        THEN [ret |-> <<>>, self |-> self3, calls |-> <<c4>>, caught |-> TRUE]
        ELSE [ret |-> st.new_messages, self |-> self3,
              calls |-> <<c4>>, caught |-> FALSE]

\* variant of poll_messages that goes on to the fetch when the initialization
\* it triggered returned False
poll_messages_ignores_failure(self, current_time, ga, ia, sa, fa) ==
    LET i == IF self.consumer_initialized
             THEN [ret |-> TRUE, self |-> self, calls |-> <<>>]
             ELSE initialize_consumer(self, ga, ia, sa)
        f == fetch_records(i.self, current_time, fa)
    IN  [ret |-> f.ret, self |-> f.self, calls |-> i.calls \o f.calls,
         caught |-> f.caught,
         init |-> IF self.consumer_initialized THEN "not_called"
                  ELSE IF i.ret THEN "True" ELSE "False"]

\* variant of poll_messages that uses last_poll_time to skip the fetch of a
\* poll made at the time of the last one
poll_messages_throttled(self, current_time, ga, ia, sa, fa) ==
    LET i == IF self.consumer_initialized
             THEN [ret |-> TRUE, self |-> self, calls |-> <<>>]
             ELSE initialize_consumer(self, ga, ia, sa)
        f == fetch_records(i.self, current_time, fa)
        init == IF self.consumer_initialized THEN "not_called"
                ELSE IF i.ret THEN "True" ELSE "False"
    IN  IF ~i.ret \/ (self.consumer_initialized /\ current_time = self.last_poll_time)
        THEN [ret |-> <<>>, self |-> i.self, calls |-> i.calls,
              caught |-> FALSE, init |-> init]
        ELSE [ret |-> f.ret, self |-> f.self, calls |-> i.calls \o f.calls,
              caught |-> f.caught, init |-> init]

\* poll_messages: ret is the list returned, init is what the initialization it
\* triggered returned ("not_called" when it triggered none), caught is whether
\* the call ended in its except clause
poll_messages(self, current_time, ga, ia, sa, fa) ==
    LET i == IF self.consumer_initialized
             THEN [ret |-> TRUE, self |-> self, calls |-> <<>>]
             ELSE initialize_consumer(self, ga, ia, sa)
        f == fetch_records(i.self, current_time, fa)
        init == IF self.consumer_initialized THEN "not_called"
                ELSE IF i.ret THEN "True" ELSE "False"
    IN  IF ~i.ret
        THEN [ret |-> <<>>, self |-> i.self, calls |-> i.calls,
              caught |-> FALSE, init |-> init]
        ELSE [ret |-> f.ret, self |-> f.self, calls |-> i.calls \o f.calls,
              caught |-> f.caught, init |-> init]

\* get_status
get_status(self) ==
    [ consumer_group_id |-> self.consumer_group_id,
      instance_id |-> self.instance_id,
      initialized |-> self.consumer_initialized,
      total_consumed |-> Len(self.consumed_messages),
      last_poll |-> self.last_poll_time ]

---------------------------------------------------------------------------
(* The environment of a run: what the remote service may answer *)

\* values a record of the topic may carry under "value"
WireValues ==
    { JStr(TextEvent), JStr(TextDouble), JStr(TextGarbage), JStr(""),
      TestEvent, JObj("{}"), JNum(0) }

\* elements of a fetched list, before the remote stamps the offsets
Templates ==
    { DictRecord(0, v) : v \in WireValues }
    \cup { NoValueRecord(0), NumberElement }

\* number of records (dicts) among the first n elements
RECURSIVE dicts_in(_, _)
dicts_in(elems, n) ==
    IF n = 0 THEN 0
    ELSE dicts_in(elems, n - 1) + (IF elems[n].kind = "dict" THEN 1 ELSE 0)

\* the remote gives consecutive offsets, from `from` on, to the records of a batch
stamp(elems, from) ==
    [ i \in 1..Len(elems) |->
        IF elems[i].kind = "dict"
        THEN [elems[i] EXCEPT !.offset = from + dicts_in(elems, i - 1)]
        ELSE elems[i] ]

\* the lists of 1 to n elements
Batches(templates, n) == UNION { [1..k -> templates] : k \in 1..n }

FetchTexts == { "", " ", "[]", "[ ]", TextGarbage, "5", "{}", TextEvent }

\* the answers of the remote to a publish
PublishAnswers ==
    { Ok(TextBody("{\"offsets\":[]}")), HttpError(404, ""), HttpError(500, ""), UrlError }

Plain == DictRecord(0, JStr(TextEvent))

\* a remote with every answer to the setup calls, and a few to the fetch
AnySetup ==
    [ group |-> GroupAnswers,
      instance |-> InstanceAnswers,
      subscribe |-> SubscribeAnswers,
      fetch_failures |-> { UrlError },
      fetch_texts |-> { "[]" },
      batches |-> { <<Plain>> },
      max_records |-> MaxRecords,
      max_clock |-> MaxClock,
      publish |-> PublishAnswers,
      stores |-> FALSE ]

\* a remote with every answer to the fetch, malformed batches included, and
\* a few to the setup calls
AnyFetch ==
    [ group |-> { Ok(TextBody("")) },
      instance |-> { Ok(TextBody(TextInst1)), Ok(TextBody(TextInst2)), HttpError(500, "") },
      subscribe |-> { Ok(TextBody("")) },
      fetch_failures |-> { HttpError(404, ""), HttpError(500, ""), UrlError },
      fetch_texts |-> FetchTexts,
      batches |-> Batches(Templates, MaxRecords),
      max_records |-> MaxRecords,
      max_clock |-> MaxClock,
      publish |-> PublishAnswers,
      stores |-> FALSE ]

\* a remote that answers every setup call with success and every fetch with
\* records, now and then with a number in the place of a record; it returns
\* enough records to fill the history
HistRemote ==
    [ group |-> { Ok(TextBody("")) },
      instance |-> { Ok(TextBody(TextInst1)) },
      subscribe |-> { Ok(TextBody("")) },
      fetch_failures |-> {},
      fetch_texts |-> { "" },
      batches |-> { <<Plain>>, <<Plain, Plain>>, <<Plain, NumberElement>> },
      max_records |-> max_stored_messages + HistSlack,
      max_clock |-> 0,
      publish |-> PublishAnswers,
      stores |-> FALSE ]

\* a live backend: it answers every setup call with success, accepts every
\* publish, stores the published records and returns them to the fetch as
\* they are stored, in order, each once
Live ==
    [ group |-> { Ok(TextBody("")) },
      instance |-> { Ok(TextBody(TextInst1)) },
      subscribe |-> { Ok(TextBody("")) },
      fetch_failures |-> {},
      fetch_texts |-> { "[]" },
      batches |-> {},
      max_records |-> MaxPublish,
      max_clock |-> 0,
      publish |-> { Ok(TextBody("{\"offsets\":[]}")) },
      stores |-> TRUE ]

\* the fetch answers of a remote that stores the publishes: the empty list
\* when every record was returned, else the next records, one at least
StoredAnswers(env, from) ==
    IF from >= Len(topic)
    THEN { Ok(TextBody(text)) : text \in env.fetch_texts }
    ELSE { Ok(ListBody(stamp(SubSeq(topic, from + 1, k), from))) :
             k \in (from + 1)..Len(topic) }

\* the fetch answers of environment env when the next offset is `from`
FetchAnswers(env, from) ==
    IF env.stores THEN StoredAnswers(env, from) ELSE
    env.fetch_failures
    \cup { Ok(TextBody(text)) : text \in env.fetch_texts }
    \cup { Ok(ListBody(stamp(b, from))) :
             b \in { x \in env.batches : from + Len(x) <= env.max_records } }

\* the answers to the three setup calls; when the session is initialized no
\* setup call is issued, and one triple stands for what the remote would say
SetupAnswers(env, self) ==
    IF self.consumer_initialized
    THEN { [group |-> Ok(TextBody("")), instance |-> Ok(TextBody(TextInst2)),
            subscribe |-> Ok(TextBody(""))] }
    ELSE [group : env.group, instance : env.instance, subscribe : env.subscribe]

\* time.time() of a request: the clock never runs backwards
Times(env) == { t \in now..(now + 1) : t <= env.max_clock \/ t = now }

---------------------------------------------------------------------------
(* The responses of StatefulKafkaHandler *)

NoOutcome == [init |-> "not_called", poll |-> "not_called", messages |-> <<>>]

\* the JSON document written with HTTP code 200; a key the document lacks is
\* "absent" (status, initialized), -1 (message_count) or <<>>
Response(status) ==
    [ code |-> 200, status |-> status, messages |-> <<>>, message_count |-> -1,
      initialized |-> "absent", consumer_status |-> <<>> ]

PyBool(b) == IF b THEN "True" ELSE "False"

---------------------------------------------------------------------------
(* State after run_server has created the consumer, before the first request *)

Init ==
    /\ persistent_consumer = NewConsumer
    /\ now = 0
    /\ next_offset = 0
    /\ topic = <<>>
    /\ request = "none"
    /\ handlers = 0
    /\ before = NewConsumer
    /\ calls = <<>>
    /\ outcome = NoOutcome
    /\ response = Response("absent")

\* variant of server_idle for a server that hands each request to a thread
\* of its own (ThreadingHTTPServer)
server_threaded == TRUE

\* HTTPServer.serve_forever handles a request to its end before it accepts
\* the next one: a handler starts when none is running
server_idle == handlers = 0

---------------------------------------------------------------------------
(* do_GET *)

\* GET /consume-persistent
consume_persistent(env) ==
    /\ server_idle
    /\ \E t \in Times(env), su \in SetupAnswers(env, persistent_consumer) :
      \E fa \in IF initialize_consumer(persistent_consumer,
                                       su.group, su.instance, su.subscribe).ret
                THEN FetchAnswers(env, next_offset) ELSE {UrlError} :
        LET p == poll_messages(persistent_consumer, t,
                               su.group, su.instance, su.subscribe, fa)
            fetched == { i \in 1..Len(p.calls) :
                           p.calls[i].op = "fetch" /\ p.calls[i].answer.kind = "ok" }
        IN  /\ persistent_consumer' = p.self
            /\ now' = t
            /\ next_offset' =
                 IF fetched = {} THEN next_offset
                 ELSE next_offset + dicts_in(fa.body.records, Len(fa.body.records))
            /\ request' = "/consume-persistent"
            /\ handlers' = handlers + 1
            /\ before' = persistent_consumer
            /\ calls' = p.calls
            /\ outcome' = [init |-> p.init,
                           poll |-> IF p.caught THEN "caught" ELSE "returned",
                           messages |-> p.ret]
            /\ response' = [Response("success") EXCEPT
                              !.messages = p.ret,
                              !.message_count = Len(p.ret),
                              !.consumer_status = <<get_status(p.self)>>]
            /\ UNCHANGED topic

\* GET /initialize-consumer
initialize_consumer_endpoint(env) ==
    /\ server_idle
    /\ \E t \in Times(env), su \in SetupAnswers(env, persistent_consumer) :
      LET i == initialize_consumer(persistent_consumer,
                                   su.group, su.instance, su.subscribe)
      IN  /\ persistent_consumer' = i.self
          /\ now' = t
          /\ request' = "/initialize-consumer"
          /\ handlers' = handlers + 1
          /\ before' = persistent_consumer
          /\ calls' = i.calls
          /\ outcome' = [NoOutcome EXCEPT !.init = PyBool(i.ret)]
          /\ response' = [Response(IF i.ret THEN "success" ELSE "error") EXCEPT
                            !.initialized = PyBool(i.ret),
                            !.consumer_status = <<get_status(i.self)>>]
          /\ UNCHANGED <<next_offset, topic>>

\* variant of no_session_call in which the request builds a new consumer object
no_session_call_new_consumer(env, path, issued, resp) ==
    /\ server_idle
    /\ \E t \in Times(env) :
      /\ now' = t
      /\ request' = path
      /\ handlers' = handlers + 1
      /\ before' = persistent_consumer
      /\ calls' = issued
      /\ outcome' = NoOutcome
      /\ response' = resp
      /\ persistent_consumer' = NewConsumer
      /\ UNCHANGED next_offset

\* a request that does not touch the session: what it leaves as it is
no_session_call(env, path, issued, resp) ==
    /\ server_idle
    /\ \E t \in Times(env) :
      /\ now' = t
      /\ request' = path
      /\ handlers' = handlers + 1
      /\ before' = persistent_consumer
      /\ calls' = issued
      /\ outcome' = NoOutcome
      /\ response' = resp
      /\ UNCHANGED <<persistent_consumer, next_offset>>

\* GET /health
health(env) ==
    /\ no_session_call(env, "/health", <<>>,
           [Response("healthy") EXCEPT
              !.consumer_status = <<get_status(persistent_consumer)>>])
    /\ UNCHANGED topic

\* variant of consumer_status that runs the setup sequence before reporting
consumer_status_reinit(env) ==
    /\ server_idle
    /\ \E t \in Times(env), su \in [group : env.group, instance : env.instance,
                                     subscribe : env.subscribe] :
      LET i == setup_sequence(persistent_consumer, su.group, su.instance, su.subscribe)
      IN  /\ persistent_consumer' = i.self
          /\ now' = t
          /\ request' = "/consumer-status"
          /\ handlers' = handlers + 1
          /\ before' = persistent_consumer
          /\ calls' = i.calls
          /\ outcome' = NoOutcome
          /\ response' = [Response("success") EXCEPT
                            !.consumer_status = <<get_status(i.self)>>]
          /\ UNCHANGED <<next_offset, topic>>

\* GET /consumer-status
consumer_status(env) ==
    /\ no_session_call(env, "/consumer-status", <<>>,
           [Response("success") EXCEPT
              !.consumer_status = <<get_status(persistent_consumer)>>])
    /\ UNCHANGED topic

\* GET on any other path: the listing of the endpoints, without a status key
listing(env) ==
    /\ no_session_call(env, "/", <<>>, Response("absent"))
    /\ UNCHANGED topic

\* status of the /consume-direct-plsql response for an upstream body:
\* plsql_data.get("status", "success"), or "error" when decoding raises
direct_plsql_status(text) ==
    CASE text = "{\"items\":[{\"result\":\"{\\\"status\\\":\\\"success\\\"}\"}]}" -> "success"
      [] text = "{\"items\":[{\"result\":\"{\\\"status\\\":\\\"error\\\"}\"}]}" -> "error"
      [] text = "{}" -> "success"
      [] OTHER -> "error"

DirectPlsqlAnswers ==
    { Ok(TextBody(text)) :
        text \in { "{\"items\":[{\"result\":\"{\\\"status\\\":\\\"success\\\"}\"}]}",
                   "{\"items\":[{\"result\":\"{\\\"status\\\":\\\"error\\\"}\"}]}",
                   "{}", "[]", TextGarbage } }
    \cup { HttpError(404, ""), HttpError(500, ""), UrlError }

\* GET /consume-direct-plsql
consume_direct_plsql(env) ==
    /\ \E a \in DirectPlsqlAnswers :
         no_session_call(env, "/consume-direct-plsql",
             <<Call("plsql_consume", JNull, a)>>,
             IF a.kind = "ok"
             THEN [Response(direct_plsql_status(a.body.text)) EXCEPT
                     !.message_count = 0]
             ELSE [Response("error") EXCEPT !.message_count = 0])
    /\ UNCHANGED topic

\* the remote's side of a publish of one record with this value: a remote
\* that stores the publishes appends the record when it answers with success
published(env, a, value) ==
    /\ env.stores => Len(topic) < env.max_records
    /\ topic' = IF env.stores /\ a.kind = "ok"
                THEN Append(topic, DictRecord(0, value))
                ELSE topic

\* GET /send-message/{text}: the record's value is the test event itself
send_message(env) ==
    \E message \in Messages, a \in env.publish :
      /\ no_session_call(env, "/send-message/", <<Call("publish", JNull, a)>>,
             Response(IF a.kind = "ok" THEN "success" ELSE "error"))
      /\ published(env, a, send_test_event(message))

---------------------------------------------------------------------------
(* do_POST *)

\* the request body of a POST: a JSON object, or one that makes reading the
\* test message raise (no Content-Length, no JSON, no object)
PostBodies == { "{\"test_message\":\"hello\"}", "{}", TextGarbage }

post_body_ok(text) == text # TextGarbage

\* request_data.get('test_message', 'stateful_test')
test_message_of(text) ==
    IF text = "{\"test_message\":\"hello\"}" THEN "hello" ELSE "stateful_test"

\* POST /test-kafka: the record's value is json.dumps of the test event
test_kafka(env) ==
    \E body \in PostBodies, a \in env.publish :
      IF post_body_ok(body)
      THEN /\ no_session_call(env, "/test-kafka", <<Call("publish", JNull, a)>>,
                  Response(IF a.kind = "ok" THEN "success" ELSE "error"))
           /\ published(env, a,
                  JStr(json_dumps(kafka_test_event(test_message_of(body)))))
      ELSE /\ no_session_call(env, "/test-kafka", <<>>, Response("error"))
           /\ UNCHANGED topic

\* status of the /test-plsql-enqueue response for an upstream body:
\* plsql_data.get("status", "unknown"), or "error" when decoding raises
plsql_enqueue_status(text) ==
    CASE text = "{\"status\":\"success\"}" -> "success"
      [] text = "{\"status\":\"error\"}" -> "error"
      [] text = "{}" -> "unknown"
      [] OTHER -> "error"

PlsqlEnqueueAnswers ==
    { Ok(TextBody(text)) :
        text \in { "{\"status\":\"success\"}", "{\"status\":\"error\"}", "{}", "[]",
                   TextGarbage } }
    \cup { HttpError(404, ""), HttpError(500, ""), UrlError }

\* POST /test-plsql-enqueue
test_plsql_enqueue(env) ==
    /\ \E body \in PostBodies, a \in PlsqlEnqueueAnswers :
         IF post_body_ok(body)
         THEN no_session_call(env, "/test-plsql-enqueue",
                  <<Call("plsql_publish", JNull, a)>>,
                  Response(IF a.kind = "ok" THEN plsql_enqueue_status(a.body.text)
                           ELSE "error"))
         ELSE no_session_call(env, "/test-plsql-enqueue", <<>>, Response("error"))
    /\ UNCHANGED topic

\* POST on any other path
unknown_post(env) ==
    /\ no_session_call(env, "POST /", <<>>, Response("error"))
    /\ UNCHANGED topic

\* the handler writes the response and returns: the server is ready for the
\* next request
respond ==
    /\ request # "none"
    /\ request' = "none"
    /\ handlers' = handlers - 1
    /\ before' = persistent_consumer
    /\ calls' = <<>>
    /\ outcome' = NoOutcome
    /\ response' = Response("absent")
    /\ UNCHANGED <<persistent_consumer, now, next_offset, topic>>

---------------------------------------------------------------------------
(* Specification: any sequence of requests, against a remote that answers *)
(* the setup calls in any way or the fetch in any way                     *)

Next ==
    \/ consume_persistent(AnySetup)
    \/ consume_persistent(AnyFetch)
    \/ initialize_consumer_endpoint(AnySetup)
    \/ health(AnySetup)
    \/ consumer_status(AnySetup)
    \/ listing(AnySetup)
    \/ consume_direct_plsql(AnySetup)
    \/ send_message(AnySetup)
    \/ test_kafka(AnySetup)
    \/ test_plsql_enqueue(AnySetup)
    \/ unknown_post(AnySetup)
    \/ respond

Spec == Init /\ [][Next]_vars

\* Specification: polls against a remote that fills the history
NextHist ==
    \/ consume_persistent(HistRemote)
    \/ respond

SpecHist == Init /\ [][NextHist]_vars

(* Specification: publishes and polls against the live backend; the client *)
(* keeps polling and every handler returns                                 *)

NextLive ==
    \/ send_message(Live)
    \/ test_kafka(Live)
    \/ consume_persistent(Live)
    \/ respond

SpecLive ==
    /\ Init
    /\ [][NextLive]_vars
    /\ SF_vars(consume_persistent(Live))
    /\ WF_vars(respond)

---------------------------------------------------------------------------
(* Properties *)

SetupOps == { "create_group", "create_instance", "subscribe" }

\* the positions in calls of the calls of operation op
Issued(op) == { i \in 1..Len(calls) : calls[i].op = op }

SetupIssued == UNION { Issued(op) : op \in SetupOps }

\* the request in hand called initialize_consumer on an uninitialized session
InitAttempted == outcome.init # "not_called" /\ ~before.consumer_initialized

\* the last n elements of a sequence
LastN(seq, n) ==
    IF Len(seq) > n THEN SubSeq(seq, Len(seq) - n + 1, Len(seq)) ELSE seq

\* C1: initialize_consumer called on an initialized session returns True,
\* issues no remote call and leaves every field of the session as it was.
C1_InitializeIdempotent ==
    (request = "/initialize-consumer" /\ before.consumer_initialized) =>
        /\ outcome.init = "True"
        /\ calls = <<>>
        /\ persistent_consumer = before

C1_Witness ==
    /\ request = "/initialize-consumer"
    /\ before.consumer_initialized
    /\ before.instance_id = JStr("inst_1")
    /\ Len(before.consumed_messages) > 0
    /\ before.last_poll_time > 0

\* C2 as stated: a poll on an uninitialized session makes exactly one
\* initialization attempt and then issues the fetch, whatever the remote
\* answers to the setup calls.
C2_PollAlwaysFetches ==
    (request = "/consume-persistent" /\ ~before.consumer_initialized) =>
        /\ Cardinality(Issued("create_group")) = 1
        /\ Cardinality(Issued("fetch")) = 1

\* C2 amended: a poll on an uninitialized session makes exactly one
\* initialization attempt; it issues the fetch, once and after the setup
\* calls, when the attempt succeeds, and returns the empty list without a
\* fetch when the attempt fails.
C2_PollInitializesOnce ==
    (request = "/consume-persistent" /\ ~before.consumer_initialized) =>
        /\ outcome.init # "not_called"
        /\ Cardinality(Issued("create_group")) = 1
        /\ \A op \in SetupOps : Cardinality(Issued(op)) <= 1
        /\ outcome.init = "True" =>
              /\ Issued("fetch") = { Len(calls) }
              /\ Len(calls) = 4
        /\ outcome.init = "False" =>
              /\ Issued("fetch") = {}
              /\ outcome.messages = <<>>

C2_Witness ==
    /\ request = "/consume-persistent"
    /\ ~before.consumer_initialized
    /\ outcome.init = "True"
    /\ Issued("fetch") = { 4 }
    /\ Len(outcome.messages) > 0

\* C3: the history never holds more than max_stored_messages entries.
C3_HistoryBounded ==
    Len(persistent_consumer.consumed_messages) <= max_stored_messages

\* C4: after a poll that completes normally the history is the last
\* max_stored_messages elements of the history before the poll followed by the
\* records accepted in the poll.
C4_EvictionFifo ==
    (request = "/consume-persistent" /\ outcome.poll = "returned") =>
        persistent_consumer.consumed_messages =
            LastN(before.consumed_messages \o outcome.messages, max_stored_messages)

\* the fetch of the request in hand succeeded with an empty body
EmptyFetch ==
    \E i \in Issued("fetch") :
        /\ calls[i].answer.kind = "ok"
        /\ calls[i].answer.body.text \in { "", " ", "[]" }

\* C5: on an initialized session a fetch that succeeds with an empty body makes
\* poll_messages return the empty list without an exception, history and
\* initialized flag stay as they were, and the response has status "success"
\* and message_count 0.
C5_EmptyPoll ==
    (request = "/consume-persistent" /\ before.consumer_initialized /\ EmptyFetch) =>
        /\ outcome.poll = "returned"
        /\ outcome.messages = <<>>
        /\ persistent_consumer.consumed_messages = before.consumed_messages
        /\ persistent_consumer.consumer_initialized
        /\ response.code = 200
        /\ response.status = "success"
        /\ response.message_count = 0

C5_Witness ==
    /\ request = "/consume-persistent"
    /\ before.consumer_initialized
    /\ \E i \in Issued("fetch") :
          calls[i].answer.kind = "ok" /\ calls[i].answer.body.text = " "
    /\ Len(before.consumed_messages) > 0

\* the remote call failed: urlopen raised
Failed(answer) == answer.kind # "ok"

\* an HTTP error that reports that the object exists already
AlreadyExistsConflict(answer) ==
    /\ answer.kind = "http_error"
    /\ \/ answer.code = 409
       \/ answer.code = 400 /\ ContainsAlreadyExists(answer.body.text)

\* C6 as stated: a setup call that fails with anything but an "already
\* exists" conflict makes initialize_consumer return False, and the
\* initialized flag stays false.
C6_AnyFailureFails ==
    ( /\ InitAttempted
      /\ \E i \in SetupIssued :
            Failed(calls[i].answer) /\ ~AlreadyExistsConflict(calls[i].answer) ) =>
        /\ outcome.init = "False"
        /\ ~persistent_consumer.consumer_initialized

\* C6 amended: initialize_consumer returns False, with the flag still false,
\* when create instance fails in any way or when create group or subscribe
\* fails with something that is no HTTP error response; an HTTP error response
\* to create group or subscribe is tolerated, so that with a usable answer to
\* create instance the call returns True and sets the flag.
C6_FailureSurfaces ==
    InitAttempted =>
        /\ ( \/ \E i \in Issued("create_instance") : Failed(calls[i].answer)
             \/ \E i \in SetupIssued : calls[i].answer.kind = "url_error" ) =>
              /\ outcome.init = "False"
              /\ ~persistent_consumer.consumer_initialized
        /\ outcome.init = "False" => ~persistent_consumer.consumer_initialized
        /\ ( /\ \A i \in SetupIssued : calls[i].answer.kind # "url_error"
             /\ \E i \in Issued("create_instance") :
                   /\ calls[i].answer.kind = "ok"
                   /\ calls[i].answer.body.text \in { TextInst1, TextInst2, "{}" } ) =>
              /\ outcome.init = "True"
              /\ persistent_consumer.consumer_initialized

C6_Witness ==
    /\ InitAttempted
    /\ Len(calls) = 3
    /\ calls[1].answer = HttpError(500, "")
    /\ calls[2].answer = Ok(TextBody(TextInst1))
    /\ calls[3].answer = UrlError
    /\ outcome.init = "False"

UpstreamEndpoints ==
    { "/consume-persistent", "/initialize-consumer", "/consume-direct-plsql",
      "/send-message/", "/test-kafka", "/test-plsql-enqueue" }

\* C7: when an upstream call of a request fails, the response has code 200 and
\* a status that says error.
C7_UpstreamFailureIsError ==
    ( /\ request \in UpstreamEndpoints
      /\ \E i \in 1..Len(calls) : Failed(calls[i].answer) ) =>
        /\ response.code = 200
        /\ response.status = "error"

\* C8 as stated: once an initialization attempt has failed, only a request to
\* /initialize-consumer issues setup calls.  An instance id on a session that
\* is not initialized shows that an earlier attempt failed after create
\* instance.
C8_OnlyExplicitReinit ==
    ( /\ ~before.consumer_initialized
      /\ before.instance_id # JNull
      /\ SetupIssued # {} ) =>
        request = "/initialize-consumer"

\* C8 amended: setup calls are issued only by a request to /initialize-consumer
\* or /consume-persistent, only on a session that is not initialized, and each
\* at most once in a request: no other request and no retry re-issues them.
C8_SetupOnlyOnDemand ==
    SetupIssued # {} =>
        /\ request \in { "/initialize-consumer", "/consume-persistent" }
        /\ ~before.consumer_initialized
        /\ \A op \in SetupOps : Cardinality(Issued(op)) <= 1

C8_Witness ==
    /\ request = "/consume-persistent"
    /\ ~before.consumer_initialized
    /\ before.instance_id # JNull
    /\ Cardinality(SetupIssued) = 3

NoSessionPaths ==
    { "/health", "/consumer-status", "/consume-direct-plsql", "/send-message/", "/",
      "/test-kafka", "/test-plsql-enqueue", "POST /" }

\* C9: a request to an endpoint other than /consume-persistent and
\* /initialize-consumer leaves every field of the session as it was, and the
\* session changes in no other step than a poll or an initialize request.
C9_SessionFrame ==
    [][ /\ request' \in NoSessionPaths => persistent_consumer' = persistent_consumer
        /\ persistent_consumer' # persistent_consumer =>
              request' \in { "/consume-persistent", "/initialize-consumer" } ]_vars

C9_Witness ==
    /\ request = "/send-message/"
    /\ Failed(calls[1].answer)
    /\ before.consumer_initialized
    /\ Len(before.consumed_messages) > 0
    /\ persistent_consumer = before

\* C10: a request to /initialize-consumer on an initialized session runs the
\* three setup calls again and leaves the instance id that the new create
\* instance call returned.
C10_ForcesReinit ==
    (request = "/initialize-consumer" /\ before.consumer_initialized) =>
        /\ \A op \in SetupOps : Issued(op) # {}
        /\ \E i \in Issued("create_instance") :
              persistent_consumer.instance_id =
                  get_instance_id(json_loads(calls[i].answer.body.text).v)

---------------------------------------------------------------------------
(* C11 *)

\* the backend holds a record of this test event that no fetch has returned:
\* the event itself (/send-message/) or its JSON text (POST /test-kafka)
Pending(event) ==
    \E i \in (next_offset + 1)..Len(topic) :
      topic[i].value \in { event, JStr(json_dumps(event)) }

\* a /consume-persistent response carries a message whose data is the event
Returned(event) ==
    /\ request = "/consume-persistent"
    /\ \E i \in 1..Len(response.messages) : response.messages[i].data = event

\* C11: against the live backend, a test event published through
\* /send-message/{text} or POST /test-kafka and not yet delivered is
\* eventually returned unchanged, as the data of a message, by a
\* /consume-persistent poll
C11_RoundTrip ==
    \A event \in TestEvents : Pending(event) ~> Returned(event)

\* a poll returned the event of a POST /test-kafka, published as JSON text
C11_Witness ==
    \E event \in { kafka_test_event(m) : m \in Messages } :
      /\ Returned(event)
      /\ \E i \in 1..next_offset : topic[i].value = JStr(json_dumps(event))

---------------------------------------------------------------------------
(* C12 *)

\* the values the wire formats of the topic carry: a JSON-encoded string, a
\* doubly encoded string, an object, a number, an empty string or object
EncodedValues ==
    { JStr(TextEvent), JStr(TextDouble), TestEvent, JNum(0), JStr(""), JObj("{}") }

\* the fetches of the request in hand that returned a list of records, each
\* with one of these values
BatchFetches ==
    { i \in Issued("fetch") :
        /\ calls[i].answer.kind = "ok"
        /\ calls[i].answer.body.text = "[...]"
        /\ \A j \in 1..Len(calls[i].answer.body.records) :
             /\ calls[i].answer.body.records[j].kind = "dict"
             /\ calls[i].answer.body.records[j].has_value
             /\ calls[i].answer.body.records[j].value \in EncodedValues }

\* the entries the request in hand appended to a history below its bound
Appended ==
    SubSeq(persistent_consumer.consumed_messages,
           Len(before.consumed_messages) + 1,
           Len(persistent_consumer.consumed_messages))

\* C12: a poll whose fetch returns a list of records appends one entry for
\* every record of the list, whatever its value, and the entry carries the
\* decoded value of the record.
C12_EveryRecordAppended ==
    (request = "/consume-persistent") =>
        \A i \in BatchFetches :
          LET records == calls[i].answer.body.records
          IN  /\ Len(Appended) = Len(records)
              /\ \A j \in 1..Len(records) :
                   j <= Len(Appended) =>
                     Appended[j].data = decode_value(records[j].value).v

---------------------------------------------------------------------------
(* C13 *)

\* the setup call got what it needs to go on: a success, with an instance id
\* that can be used in the case of create instance
Succeeded(call) ==
    /\ call.answer.kind = "ok"
    /\ call.op = "create_instance" =>
         call.answer.body.text \in { TextInst1, TextInst2, "{}" }

\* C13 as stated: an initialization attempt in which some setup call is
\* answered with an "already exists" conflict, and every other setup call it
\* issues succeeds, returns True with the initialized flag set.
C13_ConflictBenign ==
    ( /\ InitAttempted
      /\ \E i \in SetupIssued : AlreadyExistsConflict(calls[i].answer)
      /\ \A i \in SetupIssued :
            AlreadyExistsConflict(calls[i].answer) \/ Succeeded(calls[i]) ) =>
        /\ outcome.init = "True"
        /\ persistent_consumer.consumer_initialized

\* C13: an "already exists" conflict answer to create group or to subscribe
\* does not fail the initialization, which returns True with the flag set
\* when create instance succeeds and no call ends without an HTTP answer; a
\* conflict answer to create instance makes it return False with the flag
\* unset, and subscribe is not issued.
C13_GroupSubscribeConflictBenign ==
    InitAttempted =>
        /\ ( /\ \A i \in Issued("create_group") \cup Issued("subscribe") :
                  AlreadyExistsConflict(calls[i].answer) \/ Succeeded(calls[i])
             /\ \A i \in Issued("create_instance") : Succeeded(calls[i]) ) =>
              /\ outcome.init = "True"
              /\ persistent_consumer.consumer_initialized
              /\ Cardinality(SetupIssued) = 3
        /\ ( \E i \in Issued("create_instance") :
                AlreadyExistsConflict(calls[i].answer) ) =>
              /\ outcome.init = "False"
              /\ ~persistent_consumer.consumer_initialized
              /\ Issued("subscribe") = {}

\* create group and subscribe both answered with a conflict, and the
\* initialization succeeded
C13_Witness ==
    /\ InitAttempted
    /\ Len(calls) >= 3
    /\ calls[1].answer = HttpError(400, TextExists)
    /\ Succeeded(calls[2])
    /\ calls[3].answer = HttpError(409, TextExists)
    /\ outcome.init = "True"

---------------------------------------------------------------------------
(* C14 *)

SetupOrder == << "create_group", "create_instance", "subscribe" >>

---------------------------------------------------------------------------
(* C15 *)

\* C15: a poll issues at most one fetch: exactly one when the session is
\* initialized at its start or the initialization it triggers succeeds, none
\* when that initialization fails, and then it returns the empty list.  No
\* other request issues a fetch.
C15_OneFetchPerPoll ==
    /\ Cardinality(Issued("fetch")) <= 1
    /\ request # "/consume-persistent" => Issued("fetch") = {}
    /\ request = "/consume-persistent" =>
         /\ (before.consumer_initialized \/ outcome.init = "True") =>
               Cardinality(Issued("fetch")) = 1
         /\ outcome.init = "False" =>
               /\ Issued("fetch") = {}
               /\ outcome.messages = <<>>
               /\ outcome.poll = "returned"

\* a poll of an initialized session that fetched once, and got records
C15_Witness ==
    /\ request = "/consume-persistent"
    /\ before.consumer_initialized
    /\ Cardinality(Issued("fetch")) = 1
    /\ Len(outcome.messages) > 0

---------------------------------------------------------------------------
(* C16 *)

\* C16: at most one request handler is running in any reachable state, and a
\* handler is running exactly while a request is in hand; every step that
\* reads or writes the session for a request (it changes the session, runs
\* an initialization or a poll, or issues remote calls) starts with no
\* handler running, so neither the session accesses of two requests nor two
\* initialization runs overlap.
C16_OneAtATime ==
    /\ [](handlers <= 1 /\ (handlers = 1 <=> request # "none"))
    /\ [][ ( \/ persistent_consumer' # persistent_consumer
             \/ outcome'.init # "not_called"
             \/ outcome'.poll # "not_called"
             \/ calls' # <<>> ) => (handlers = 0 /\ handlers' = 1) ]_vars

\* a handler is running that initialized the session and polled
C16_Witness ==
    /\ handlers = 1
    /\ request = "/consume-persistent"
    /\ outcome.init = "True"
    /\ persistent_consumer # before

---------------------------------------------------------------------------
(* C17 *)

\* C17: from a state in which the initialized flag is set, no step changes
\* the group id or the instance id of the session or unsets the flag, and a
\* fetch issued by the step addresses that instance id.
C17_IdentityStable ==
    [][ persistent_consumer.consumer_initialized =>
          /\ persistent_consumer'.consumer_initialized
          /\ persistent_consumer'.consumer_group_id = persistent_consumer.consumer_group_id
          /\ persistent_consumer'.instance_id = persistent_consumer.instance_id
          /\ \A i \in 1..Len(calls') :
               calls'[i].op = "fetch" =>
                 calls'[i].target = persistent_consumer.instance_id ]_vars

\* a poll of an initialized session fetched from the instance of the session
C17_Witness ==
    /\ request = "/consume-persistent"
    /\ before.consumer_initialized
    /\ before.instance_id = JStr("inst_2")
    /\ Len(before.consumed_messages) > 0
    /\ \E i \in Issued("fetch") : calls[i].target = JStr("inst_2")

---------------------------------------------------------------------------
(* C18 *)

\* C18: a call to initialize_consumer that returns False leaves every field
\* of the session as it was before the call, and get_status never reports an
\* instance id together with initialized = false.
C18_FailureLeavesState ==
    /\ (InitAttempted /\ outcome.init = "False") => persistent_consumer = before
    /\ ~get_status(persistent_consumer).initialized =>
          get_status(persistent_consumer).instance_id = JNull

---------------------------------------------------------------------------
(* C19 *)

\* C19: the list a poll returns is the sequence of entries the poll appended
\* to the history, whatever the remote answered and whether or not the poll
\* ended in its except clause.
C19_ReturnedIsAppended ==
    request = "/consume-persistent" => outcome.messages = Appended

---------------------------------------------------------------------------
(* C20 *)

\* C20: a step changes last_poll_time only if it is a poll whose fetch was
\* answered with success, and then to the time of that poll; a poll whose
\* initialization fails or whose fetch fails, and every other request, leaves
\* it as it was; it never decreases.
C20_LastPollFrame ==
    [][ /\ persistent_consumer'.last_poll_time # persistent_consumer.last_poll_time =>
             /\ request' = "/consume-persistent"
             /\ \E i \in 1..Len(calls') :
                  calls'[i].op = "fetch" /\ calls'[i].answer.kind = "ok"
             /\ persistent_consumer'.last_poll_time = now'
        /\ persistent_consumer'.last_poll_time >= persistent_consumer.last_poll_time
        /\ now' >= now ]_vars

\* a poll whose fetch failed, at a time later than the last successful poll
C20_Witness ==
    /\ request = "/consume-persistent"
    /\ \E i \in Issued("fetch") : Failed(calls[i].answer)
    /\ now > before.last_poll_time
    /\ before.last_poll_time > 0
    /\ persistent_consumer.last_poll_time = before.last_poll_time

====
